---- MODULE Spec2Model ----
\* A model of code_analyzer.py: the PepAnalyzer visitor, the line checks S001..S012
\* of analyze_file, and the file / directory driver analyze_pathname.
\*
\* A line of text is a sequence of one-character strings.  A regular expression is a
\* record tree; Ends(r, s, p) is the set of positions at which a match of r that
\* starts at position p of s can end, which decides re.match and re.search exactly
\* as Python's backtracking matcher does for the patterns used by the program.
EXTENDS Integers, Sequences, FiniteSets, TLC

VARIABLES mode, scripts, idx, pc, todo, stats, i,
          preceding_blank_line_counter, out, line, printed

vars == <<mode, scripts, idx, pc, todo, stats, i,
          preceding_blank_line_counter, out, line, printed>>

\* ------------------------------------------------------------------ bounds
MaxLines == 4
MaxDirLines == 3
MaxFiles == 2
MaxTotalLines == 4
MaxParams == 2
MaxIndent == 5
MaxBody == 3

\* ------------------------------------------------------------------ characters
Lower == {"a", "b", "c", "d", "e", "f", "g", "h", "i", "j", "k", "l", "m", "n", "o",
          "p", "q", "r", "s", "t", "u", "v", "w", "x", "y", "z"}
Upper == {"A", "B", "C", "D", "E", "F", "G", "H", "I", "J", "K", "L", "M", "N", "O",
          "P", "Q", "R", "S", "T", "U", "V", "W", "X", "Y", "Z"}
Digit == {"0", "1", "2", "3", "4", "5", "6", "7", "8", "9"}
Whitespace == {" ", "\t", "\n", "\r", "\f"}
WordChar == Lower \cup Upper \cup Digit \cup {"_"}

Max(S) == CHOOSE x \in S : \A y \in S : y <= x

\* ------------------------------------------------------------------ re
Set(cs) == [t |-> "set", cs |-> cs]
NSet(cs) == [t |-> "nset", cs |-> cs]
Bol == [t |-> "bol"]
Cat(rs) == [t |-> "cat", rs |-> rs]
Alt(rs) == [t |-> "alt", rs |-> rs]
Star(r) == [t |-> "star", r |-> r]
NegLook(r) == [t |-> "neg", r |-> r]
Plus(r) == Cat(<<r, Star(r)>>)
Opt(r) == Alt(<<r, Cat(<<>>)>>)
Rep(r, n) == Cat([k \in 1..n |-> r])
Lit(s) == Cat([k \in 1..Len(s) |-> Set({s[k]})])

RECURSIVE Ends(_, _, _)
RECURSIVE CatEnds(_, _, _, _)
RECURSIVE StarEnds(_, _, _, _)

Ends(r, s, p) ==
  CASE r.t = "set" -> IF p <= Len(s) /\ s[p] \in r.cs THEN {p + 1} ELSE {}
    [] r.t = "nset" -> IF p <= Len(s) /\ s[p] \notin r.cs THEN {p + 1} ELSE {}
    [] r.t = "bol" -> IF p = 1 THEN {p} ELSE {}
    [] r.t = "cat" -> CatEnds(r.rs, s, {p}, 1)
    [] r.t = "alt" -> UNION {Ends(r.rs[k], s, p) : k \in DOMAIN r.rs}
    [] r.t = "star" -> StarEnds(r.r, s, {p}, {p})
    [] r.t = "neg" -> IF Ends(r.r, s, p) = {} THEN {p} ELSE {}

CatEnds(rs, s, ps, k) ==
  IF k > Len(rs) \/ ps = {} THEN ps
  ELSE CatEnds(rs, s, UNION {Ends(rs[k], s, p) : p \in ps}, k + 1)

StarEnds(r, s, frontier, acc) ==
  LET nxt == UNION {Ends(r, s, p) : p \in frontier} \ acc
  IN IF nxt = {} THEN acc ELSE StarEnds(r, s, nxt, acc \cup nxt)

re_match(r, s) == Ends(r, s, 1) # {}

re_search(r, s) == \E p \in 1..(Len(s) + 1) : Ends(r, s, p) # {}

\* The text of the group that follows `prefix` in a pattern prefix(?P<name>grp) that
\* matched s from its start: both parts are greedy, so each takes its longest match.
re_group(prefix, grp, s) ==
  LET starts == {p \in Ends(prefix, s, 1) : Ends(grp, s, p) # {}}
      p0 == Max(starts)
  IN SubSeq(s, p0, Max(Ends(grp, s, p0)) - 1)

\* ------------------------------------------------------------------ patterns
IndentPattern == NegLook(Cat(<<Bol, Star(Rep(Set({" "}), 4)), NSet({" "})>>))

SemicolonPattern ==
  Cat(<<Bol, Star(NSet({"#"})), Set({";"}), NegLook(NSet(Whitespace))>>)

CommentPattern ==
  Cat(<<Star(NSet({"#"})), NSet({" "}), Cat(<<Opt(Set({" "})), Set({"#"})>>)>>)

TodoPattern ==
  Cat(<<Set({"#"}), Star(Set({" "})), Set({"t", "T"}), Set({"o", "O"}),
        Set({"d", "D"}), Set({"o", "O"})>>)

ConstructionPattern ==
  Cat(<<Bol, Star(Set({" "})), Alt(<<Lit(<<"c", "l", "a", "s", "s">>), Lit(<<"d", "e", "f">>)>>),
        Set({" "}), Plus(Set({" "}))>>)

ClassPrefix == Cat(<<Bol, Star(Set({" "})), Lit(<<"c", "l", "a", "s", "s", " ">>)>>)

DefPrefix == Cat(<<Bol, Star(Set({" "})), Lit(<<"d", "e", "f", " ">>)>>)

NameGroup == Plus(Set(WordChar))

CamelCasePattern == Plus(Cat(<<Set(Upper), Plus(Set(Lower \cup Digit))>>))

SnakeCasePattern == Plus(Set(Lower \cup {"_"}))

\* ------------------------------------------------------------------ line checks
Diag(code, name) == [code |-> code, name |-> name]

MaxLineLength == 79

S001(l) == IF Len(l) > MaxLineLength THEN <<Diag(1, <<>>)>> ELSE <<>>

S002(l) == IF re_match(IndentPattern, l) THEN <<Diag(2, <<>>)>> ELSE <<>>

S003Mutant(l) ==
  IF re_search(Cat(<<Set({";"}), NegLook(NSet(Whitespace))>>), l)
  THEN <<Diag(3, <<>>)>> ELSE <<>>

S003(l) == IF re_search(SemicolonPattern, l) THEN <<Diag(3, <<>>)>> ELSE <<>>

S004(l) == IF re_match(CommentPattern, l) THEN <<Diag(4, <<>>)>> ELSE <<>>

S005(l) == IF re_search(TodoPattern, l) THEN <<Diag(5, <<>>)>> ELSE <<>>

S006Mutant(counter) == IF counter >= 2 THEN <<Diag(6, <<>>)>> ELSE <<>>

S006(counter) == IF counter > 2 THEN <<Diag(6, <<>>)>> ELSE <<>>

S007(l) == IF re_match(ConstructionPattern, l) THEN <<Diag(7, <<>>)>> ELSE <<>>

S008(l) ==
  IF re_match(Cat(<<ClassPrefix, NameGroup>>), l)
  THEN LET name == re_group(ClassPrefix, NameGroup, l)
       IN IF ~re_match(CamelCasePattern, name) THEN <<Diag(8, name)>> ELSE <<>>
  ELSE <<>>

S009(l) ==
  IF re_match(Cat(<<DefPrefix, NameGroup>>), l)
  THEN LET name == re_group(DefPrefix, NameGroup, l)
       IN IF ~re_match(SnakeCasePattern, name) THEN <<Diag(9, name)>> ELSE <<>>
  ELSE <<>>

\* The checks of analyze_file that read only the text of the line, in program order.
LexicalBefore(l) == S001(l) \o S002(l) \o S003(l) \o S004(l) \o S005(l)

LexicalAfter(l) == S007(l) \o S008(l) \o S009(l)

\* ------------------------------------------------------------------ PepAnalyzer
\* A defaultdict(list) is a function on the keys it holds; a missing key reads as [].
DictGet(d, k) == IF k \in DOMAIN d THEN d[k] ELSE <<>>

DictAppend(d, k, v) ==
  [x \in DOMAIN d \cup {k} |-> IF x = k THEN Append(DictGet(d, k), v) ELSE d[x]]

DictTouch(d, k) == [x \in DOMAIN d \cup {k} |-> DictGet(d, x)]

RECURSIVE DictExtend(_, _, _)
DictExtend(d, k, vs) ==
  IF vs = <<>> THEN d ELSE DictExtend(DictAppend(d, k, Head(vs)), k, Tail(vs))

PepAnalyzer == [variables |-> <<>>, parameters |-> <<>>, is_constant_default |-> <<>>]

NameNode(lineno, id, ctx) ==
  [kind |-> "Name", lineno |-> lineno, id |-> id, ctx |-> ctx,
   args |-> <<>>, posonlyargs |-> <<>>, defaults |-> <<>>]

FunctionDefNode(lineno, posonlyargs, args, defaults) ==
  [kind |-> "FunctionDef", lineno |-> lineno, id |-> <<>>, ctx |-> "",
   args |-> args, posonlyargs |-> posonlyargs, defaults |-> defaults]

visit_Name(st, node) ==
  IF node.ctx = "Store"
  THEN [st EXCEPT !.variables = DictAppend(@, node.lineno, node.id)]
  ELSE st

visit_FunctionDef(st, node) ==
  [st EXCEPT
     !.parameters = DictExtend(@, node.lineno, node.args),
     !.is_constant_default =
        DictExtend(@, node.lineno,
                   [k \in 1..Len(node.defaults) |-> node.defaults[k] = "Constant"])]

visit(st, node) ==
  IF node.kind = "FunctionDef" THEN visit_FunctionDef(st, node) ELSE visit_Name(st, node)

get_parameters(st, lineno) == DictGet(st.parameters, lineno)

get_variables(st, lineno) == DictGet(st.variables, lineno)

Min(a, b) == IF a <= b THEN a ELSE b

get_mutable_defaults(st, lineno) ==
  LET params == DictGet(st.parameters, lineno)
      flags == DictGet(st.is_constant_default, lineno)
      zipped == 1..Min(Len(params), Len(flags))
      hits == {k \in zipped : ~flags[k]}
  IN IF hits = {} THEN <<>> ELSE params[CHOOSE k \in hits : \A h \in hits : k <= h]

\* The names of `names` that fail the snake_case test, in order.
Offending(names) == SelectSeq(names, LAMBDA n : ~re_match(SnakeCasePattern, n))

S010Mutant(st, lineno) ==
  LET bad == Offending(get_parameters(st, lineno))
  IN [k \in 1..Len(bad) |-> Diag(10, bad[k])]

S010(st, lineno) ==
  LET bad == Offending(get_parameters(st, lineno))
  IN IF bad = <<>> THEN <<>> ELSE <<Diag(10, Head(bad))>>

S011(st, lineno) ==
  LET bad == Offending(get_variables(st, lineno))
  IN IF bad = <<>> THEN <<>> ELSE <<Diag(11, Head(bad))>>

S012(st, lineno) ==
  IF get_mutable_defaults(st, lineno) # <<>> THEN <<Diag(12, <<>>)>> ELSE <<>>

\* Everything analyze_file prints for one non-blank line, in program order.
LineDiagnostics(l, lineno, counter, st) ==
  LexicalBefore(l) \o S006(counter) \o LexicalAfter(l)
    \o S010(st, lineno) \o S011(st, lineno) \o S012(st, lineno)

\* The three lookups of a line's checks create the line's key in each defaultdict.
Looked(st, lineno) ==
  [variables |-> DictTouch(st.variables, lineno),
   parameters |-> DictTouch(st.parameters, lineno),
   is_constant_default |-> DictTouch(st.is_constant_default, lineno)]

\* ------------------------------------------------------------------ lexical inputs
SeqsUpTo(S, n) == UNION {[1..k -> S] : k \in 0..n}

Spaces(n) == [k \in 1..n |-> " "]

BodyAlphabet == {"x", "F", "_", ";", "#", " "}

Keywords == {<<>>, <<"d", "e", "f", " ">>, <<"c", "l", "a", "s", "s", " ">>}

ExSemicolon == <<"x", " ", "=", " ", "5", ";">>
ExSemicolonInComment ==
  <<"x", " ", "=", " ", "5", " ", " ", "#", " ", "t", "r", "a", "i", "l", "i", "n", "g",
    " ", ";", " ", "i", "n", " ", "c", "o", "m", "m", "e", "n", "t">>
ExDefMyFunc == <<"d", "e", "f", " ", "m", "y", "F", "u", "n", "c", "(", "a", ",", " ", "b", ")", ":">>
ExDefMy_func ==
  <<"d", "e", "f", " ", "m", "y", "_", "f", "u", "n", "c", "(", "a", ",", " ", "b", ")", ":">>
ExClassFooBar == <<"c", "l", "a", "s", "s", " ", "F", "o", "o", "B", "a", "r", ":">>
ExClassfooBar == <<"c", "l", "a", "s", "s", " ", "f", "o", "o", "B", "a", "r", ":">>
ExClassFoo_bar == <<"c", "l", "a", "s", "s", " ", "F", "o", "o", "_", "b", "a", "r", ":">>

ExLong == [k \in 1..(MaxLineLength + 1) |-> "x"]

Examples ==
  {ExSemicolon, ExSemicolonInComment, ExDefMyFunc, ExDefMy_func, ExClassFooBar,
   ExClassfooBar, ExClassFoo_bar, ExLong}

\* The physical lines the line loop can meet, within the bounds: text that ends with a
\* newline (any such text can stand in a parsed file, inside a multi-line string), or
\* the last line of a file that does not; never the blank line "\n", which
\* analyze_file does not check.
LexLines ==
  ({Spaces(n) \o kw \o body \o eol :
      n \in 0..MaxIndent, kw \in Keywords, body \in SeqsUpTo(BodyAlphabet, MaxBody),
      eol \in {<<>>, <<"\n">>}}
   \cup Examples \cup {e \o <<"\n">> : e \in Examples}) \ {<<>>, <<"\n">>}

Idle ==
  /\ mode = "none"
  /\ scripts = <<>>
  /\ idx = 0
  /\ todo = <<>>
  /\ stats = <<>>
  /\ i = 0
  /\ preceding_blank_line_counter = 0
  /\ out = <<>>

InitLex ==
  /\ Idle
  /\ pc = "check"
  /\ line \in LexLines
  /\ printed = <<>>

LexCheck ==
  /\ pc = "check"
  /\ printed' = LexicalBefore(line) \o LexicalAfter(line)
  /\ pc' = "checked"
  /\ UNCHANGED <<mode, scripts, idx, todo, stats, i, preceding_blank_line_counter, out, line>>

NextLex == LexCheck

SpecLex == InitLex /\ [][NextLex]_vars

\* ------------------------------------------------------------------ source files
\* A file is a sequence of line keys; Text gives a key's physical line and Nodes the
\* nodes ast.parse builds for it, in the order NodeVisitor reaches them.
Key(k) == [k |-> k, posonly |-> 0, args |-> 0, defaults |-> <<>>]

DefKey(posonly, args, defaults) ==
  [k |-> "def", posonly |-> posonly, args |-> args, defaults |-> defaults]

PosNames == <<<<"p">>, <<"q">>, <<"r">>, <<"s">>>>
ArgNames == <<<<"a">>, <<"b">>, <<"c">>, <<"d">>>>

RECURSIVE Join(_)
Join(items) ==
  IF items = <<>> THEN <<>>
  ELSE IF Len(items) = 1 THEN Head(items)
  ELSE Head(items) \o <<",", " ">> \o Join(Tail(items))

DefaultText(e) == IF e = "Constant" THEN <<"=", "1">> ELSE <<"=", "[", "]">>

\* `def f(p=1, /, a=[]): pass`: defaults belong to the last parameters.
Render(key) ==
  LET total == key.posonly + key.args
      first == total - Len(key.defaults)
      item(name, j) ==
        name \o (IF j > first THEN DefaultText(key.defaults[j - first]) ELSE <<>>)
      pos == [j \in 1..key.posonly |-> item(PosNames[j], j)]
      slash == IF key.posonly > 0 THEN <<<<"/">>>> ELSE <<>>
      named == [j \in 1..key.args |-> item(ArgNames[j], key.posonly + j)]
  IN <<"d", "e", "f", " ", "f", "(">> \o Join(pos \o slash \o named)
       \o <<")", ":", " ", "p", "a", "s", "s", "\n">>

RichText ==
  <<"d", "e", "f", " ", "F", "(", "A", ",", " ", "B", "=", "[", "]", ")", ":", " ", "X",
    ",", " ", "Y", " ", "=", " ", "1", ",", " ", "2", ";", " ", "#", "t", "o", "d", "o", "\n">>

Text(key) ==
  CASE key.k = "blank" -> <<"\n">>
    [] key.k = "ws" -> <<" ", " ", "\n">>
    [] key.k = "plain" -> <<"x", " ", "=", " ", "y", "\n">>
    [] key.k = "rich" -> RichText
    [] key.k = "broken" -> <<"x", " ", "=", " ", ";", "\n">>
    [] key.k = "def" -> Render(key)

Nodes(key, lineno) ==
  CASE key.k = "plain" ->
         <<NameNode(lineno, <<"x">>, "Store"), NameNode(lineno, <<"y">>, "Load")>>
    [] key.k = "rich" ->
         <<FunctionDefNode(lineno, <<>>, <<<<"A">>, <<"B">>>>, <<"List">>),
           NameNode(lineno, <<"X">>, "Store"), NameNode(lineno, <<"Y">>, "Store")>>
    [] key.k = "def" ->
         <<FunctionDefNode(lineno, SubSeq(PosNames, 1, key.posonly),
                           SubSeq(ArgNames, 1, key.args), key.defaults)>>
    [] OTHER -> <<>>

RECURSIVE Tree(_, _)
Tree(lines, n) ==
  IF n > Len(lines) THEN <<>> ELSE Nodes(lines[n], n) \o Tree(lines, n + 1)

\* ast.parse(f.read()): the nodes of the module, or a SyntaxError.
Raised(exception) == [raised |-> exception, tree |-> <<>>]

Parsed(nodes) == [raised |-> "", tree |-> nodes]

Valid(key) == key.k # "broken"

ast_parse(lines) ==
  IF \E n \in DOMAIN lines : ~Valid(lines[n])
  THEN Raised("SyntaxError")
  ELSE Parsed(Tree(lines, 1))

Regular(lines) == [kind |-> "regular", lines |-> lines]
Subdir == [kind |-> "subdir", lines |-> <<>>]
Undecodable == [kind |-> "undecodable", lines |-> <<>>]

FileKeys == {Key("blank"), Key("ws"), Key("plain"), Key("rich"), Key("broken")}

DirKeys == {Key("blank"), Key("plain"), Key("rich")}

\* The entries of a listing: files that parse, and the three kinds that do not.
DirEntries ==
  {Regular(ls) : ls \in SeqsUpTo(DirKeys, MaxDirLines)}
    \cup {Subdir, Undecodable, Regular(<<Key("broken")>>)}

\* The listings of at most f entries that hold at most t lines in all.
RECURSIVE ListingsOf(_, _)
ListingsOf(f, t) ==
  IF f = 0 THEN {<<>>}
  ELSE {<<>>} \cup UNION {{<<e>> \o rest : rest \in ListingsOf(f - 1, t - Len(e.lines))} :
                          e \in {e \in DirEntries : Len(e.lines) <= t}}

Listings == ListingsOf(MaxFiles, MaxTotalLines)

\* ------------------------------------------------------------------ driver
Init ==
  /\ pc = "start"
  /\ \/ mode = "none" /\ scripts = <<>>
     \/ mode = "file"
        /\ scripts \in {<<Regular(ls)>> : ls \in SeqsUpTo(FileKeys, MaxLines)}
                         \cup {<<Undecodable>>}
     \/ mode = "dir" /\ scripts \in Listings
  /\ idx = 0
  /\ todo = <<>>
  /\ stats = <<>>
  /\ i = 0
  /\ preceding_blank_line_counter = 0
  /\ out = <<>>
  /\ line = <<>>
  /\ printed = <<>>

\* analyze_pathname: one file, or every entry of os.listdir in listing order.
analyze_pathname ==
  /\ pc = "start"
  /\ IF mode = "none" \/ scripts = <<>>
     THEN pc' = "done" /\ idx' = idx
     ELSE pc' = "open" /\ idx' = 1
  /\ UNCHANGED <<mode, scripts, todo, stats, i, preceding_blank_line_counter, out,
                 line, printed>>

CarriedCounter(c) == c

FreshCounter(c) == 0

\* analyze_file, lines 61-63: the counter starts at zero and the file is opened.
Open ==
  /\ pc = "open"
  /\ preceding_blank_line_counter' = FreshCounter(preceding_blank_line_counter)
  /\ pc' = IF scripts[idx].kind = "subdir" THEN "raised" ELSE "parse"
  /\ UNCHANGED <<mode, scripts, idx, todo, stats, i, out, line, printed>>

ParseAnywayOutcome(entry) ==
  IF entry.kind = "undecodable"
  THEN Raised("UnicodeDecodeError")
  ELSE Parsed(Tree(entry.lines, 1))

\* f.read() and ast.parse: an exception, or the tree.
ParseOutcome(entry) ==
  IF entry.kind = "undecodable"
  THEN Raised("UnicodeDecodeError")
  ELSE ast_parse(entry.lines)

\* Lines 64-66: read and parse; an exception leaves analyze_file (and, uncaught, the
\* program); otherwise a new PepAnalyzer is made for the tree.
Parse ==
  /\ pc = "parse"
  /\ LET outcome == ParseOutcome(scripts[idx])
     IN IF outcome.raised # ""
        THEN pc' = "raised" /\ UNCHANGED <<todo, stats>>
        ELSE pc' = "visit" /\ todo' = outcome.tree /\ stats' = PepAnalyzer
  /\ UNCHANGED <<mode, scripts, idx, i, preceding_blank_line_counter, out, line, printed>>

\* Line 67: the visitor handles the next node of the tree.
VisitNode ==
  /\ pc = "visit"
  /\ todo # <<>>
  /\ stats' = visit(stats, Head(todo))
  /\ todo' = Tail(todo)
  /\ UNCHANGED <<mode, scripts, idx, pc, i, preceding_blank_line_counter, out, line, printed>>

\* Lines 69-70: the traversal has returned; rewind and start the line loop.
Seek ==
  /\ pc = "visit"
  /\ todo = <<>>
  /\ pc' = "lines"
  /\ i' = 0
  /\ UNCHANGED <<mode, scripts, idx, todo, stats, preceding_blank_line_counter, out,
                 line, printed>>

Stamp(ds, file, lineno) ==
  [k \in 1..Len(ds) |->
     [file |-> file, line |-> lineno, code |-> ds[k].code, name |-> ds[k].name]]

\* Lines 71-73: a blank line only counts.
BlankLine ==
  /\ pc = "lines"
  /\ i < Len(scripts[idx].lines)
  /\ Text(scripts[idx].lines[i + 1]) = <<"\n">>
  /\ i' = i + 1
  /\ preceding_blank_line_counter' = preceding_blank_line_counter + 1
  /\ UNCHANGED <<mode, scripts, idx, pc, todo, stats, out, line, printed>>

\* Lines 75-118: every check of one non-blank line.
CheckLine ==
  /\ pc = "lines"
  /\ i < Len(scripts[idx].lines)
  /\ Text(scripts[idx].lines[i + 1]) # <<"\n">>
  /\ i' = i + 1
  /\ out' = out \o Stamp(LineDiagnostics(Text(scripts[idx].lines[i + 1]), i + 1,
                                         preceding_blank_line_counter, stats),
                         idx, i + 1)
  /\ preceding_blank_line_counter' = 0
  /\ stats' = Looked(stats, i + 1)
  /\ UNCHANGED <<mode, scripts, idx, pc, todo, line, printed>>

\* The line loop ends and analyze_file returns: the next entry, or the end.
EndFile ==
  /\ pc = "lines"
  /\ i = Len(scripts[idx].lines)
  /\ IF mode = "dir" /\ idx < Len(scripts)
     THEN pc' = "open" /\ idx' = idx + 1
     ELSE pc' = "done" /\ idx' = idx
  /\ UNCHANGED <<mode, scripts, todo, stats, i, preceding_blank_line_counter, out,
                 line, printed>>

Next ==
  \/ analyze_pathname
  \/ Open
  \/ Parse
  \/ VisitNode
  \/ Seek
  \/ BlankLine
  \/ CheckLine
  \/ EndFile

Spec == Init /\ [][Next]_vars


\* ------------------------------------------------------------------ one function definition
ExprKinds == {"Constant", "List"}

DefShapes ==
  {DefKey(po, ar, df) : po \in 0..MaxParams, ar \in 0..MaxParams,
                        df \in SeqsUpTo(ExprKinds, 2 * MaxParams)}

InitFn ==
  /\ pc = "start"
  /\ mode = "file"
  /\ scripts \in {<<Regular(<<key>>)>> :
                    key \in {d \in DefShapes : Len(d.defaults) <= d.posonly + d.args}}
  /\ idx = 0
  /\ todo = <<>>
  /\ stats = <<>>
  /\ i = 0
  /\ preceding_blank_line_counter = 0
  /\ out = <<>>
  /\ line = <<>>
  /\ printed = <<>>

NextFn ==
  \/ analyze_pathname
  \/ Open
  \/ Parse
  \/ VisitNode
  \/ Seek
  \/ CheckLine
  \/ EndFile

SpecFn == InitFn /\ [][NextFn]_vars

\* ------------------------------------------------------------------ properties
Fires(ds, code) == \E k \in DOMAIN ds : ds[k].code = code

NameReported(ds, code) == ds[CHOOSE k \in DOMAIN ds : ds[k].code = code].name

Reported(file, lineno, code) ==
  \E k \in DOMAIN out : out[k].file = file /\ out[k].line = lineno /\ out[k].code = code

DiagsOf(file) == SelectSeq(out, LAMBDA d : d.file = file)

Terminated == pc \in {"done", "raised"}

\* C1: S012 is reported on a function definition's line exactly when one of the
\* function's default values is not a literal constant, whatever the parameter list
\* and the default list are (positional-only parameters included).
C1_MutableDefaultReported ==
  (pc = "done" /\ mode = "file" /\ scripts[1].lines # <<>> /\ scripts[1].lines[1].k = "def")
    => (Reported(1, 1, 12)
          <=> \E k \in DOMAIN scripts[1].lines[1].defaults :
                 scripts[1].lines[1].defaults[k] # "Constant")

\* The number of spaces at the start of a line.
RECURSIVE LeadingSpaces(_)
LeadingSpaces(l) ==
  IF l = <<>> \/ Head(l) # " " THEN 0 ELSE 1 + LeadingSpaces(Tail(l))

RECURSIVE Identifier(_)
Identifier(l) ==
  IF l = <<>> \/ Head(l) \notin WordChar THEN <<>> ELSE <<Head(l)>> \o Identifier(Tail(l))

\* The declaration a line makes with `kw<name>` (kw ends with one space): the
\* identifier after the keyword, or <<>> when the line declares nothing with kw.
Declared(kw, l) ==
  LET rest == SubSeq(l, LeadingSpaces(l) + 1, Len(l))
  IN IF Len(rest) > Len(kw) /\ SubSeq(rest, 1, Len(kw)) = kw
     THEN Identifier(SubSeq(rest, Len(kw) + 1, Len(rest)))
     ELSE <<>>

IsSnakeCase(name) == name # <<>> /\ \A k \in DOMAIN name : name[k] \in Lower \cup {"_"}

\* Words that each start with an uppercase letter, and no underscore.
IsCamelCase(name) ==
  /\ name # <<>>
  /\ name[1] \in Upper
  /\ \A k \in DOMAIN name : name[k] \in Upper \cup Lower \cup Digit

\* C2: on a line that declares `def <name>`, S009 is reported, naming <name>, exactly
\* when <name> does not consist only of lowercase letters and underscores.
C2_FunctionNameChecked ==
  (pc = "checked" /\ Declared(<<"d", "e", "f", " ">>, line) # <<>>)
    => LET name == Declared(<<"d", "e", "f", " ">>, line)
       IN IF IsSnakeCase(name)
          THEN ~Fires(printed, 9)
          ELSE Fires(printed, 9) /\ NameReported(printed, 9) = name

\* C6: on a line that declares `class <name>`, S008 is reported, naming <name>,
\* exactly when <name> is not CamelCase.
C6_ClassNameChecked ==
  (pc = "checked" /\ Declared(<<"c", "l", "a", "s", "s", " ">>, line) # <<>>)
    => LET name == Declared(<<"c", "l", "a", "s", "s", " ">>, line)
       IN IF IsCamelCase(name)
          THEN ~Fires(printed, 8)
          ELSE Fires(printed, 8) /\ NameReported(printed, 8) = name

\* C10: S002 is reported on a non-blank line exactly when the number of spaces at its
\* start is not divisible by four.
C10_IndentationChecked ==
  pc = "checked" => (Fires(printed, 2) <=> LeadingSpaces(line) % 4 # 0)

\* The position of the line's comment marker, or one past the end of the line.
RECURSIVE CommentStart(_, _)
CommentStart(l, p) ==
  IF p > Len(l) \/ l[p] = "#" THEN p ELSE CommentStart(l, p + 1)

TrailingSemicolon(l) ==
  \E p \in 1..(CommentStart(l, 1) - 1) :
    l[p] = ";" /\ (p = Len(l) \/ l[p + 1] \in Whitespace)

\* C7: S003 is reported on a non-blank line exactly when a `;` before the line's
\* comment marker is not directly followed by a non-whitespace character: it is for
\* `x = 5;`, and a `;` inside a comment alone never triggers it.
C7_SemicolonChecked ==
  pc = "checked"
    => /\ Fires(printed, 3) <=> TrailingSemicolon(line)
       /\ line = ExSemicolon => Fires(printed, 3)
       /\ line = ExSemicolonInComment => ~Fires(printed, 3)

C7_Witness ==
  /\ pc = "checked"
  /\ line = ExSemicolon
  /\ Fires(printed, 3)

\* Blank-line runs of a file, scanned backwards from line n.
IsBlank(key) == Text(key) = <<"\n">>

RECURSIVE BlankRunEndingAt(_, _)
BlankRunEndingAt(lines, n) ==
  IF n = 0 \/ ~IsBlank(lines[n]) THEN 0 ELSE 1 + BlankRunEndingAt(lines, n - 1)

AfterLongRun(lines, n) == ~IsBlank(lines[n]) /\ BlankRunEndingAt(lines, n - 1) > 2

\* The number of lines of entry k that the line loop has passed.
Passed(k) ==
  IF k < idx \/ (k = idx /\ pc = "done") THEN Len(scripts[k].lines)
  ELSE IF k = idx /\ pc = "lines" THEN i
  ELSE 0

\* C3: S006 is reported on line n exactly when line n is non-blank and the run of
\* blank lines that ends at line n-1 is longer than two, so the S006 diagnostics are
\* as many as such lines; and the counter equals the blank run that ends at the
\* last line read, hence is zero after a non-blank line.
C3_BlankRunsReported ==
  \A k \in DOMAIN scripts :
    /\ \A n \in 1..Len(scripts[k].lines) :
         Reported(k, n, 6) <=> (n <= Passed(k) /\ AfterLongRun(scripts[k].lines, n))
    /\ Cardinality({d \in DOMAIN out : out[d].file = k /\ out[d].code = 6})
         = Cardinality({n \in 1..Passed(k) : AfterLongRun(scripts[k].lines, n)})
    /\ (k = idx /\ pc = "lines")
         => /\ preceding_blank_line_counter = BlankRunEndingAt(scripts[k].lines, i)
            /\ (i >= 1 /\ ~IsBlank(scripts[k].lines[i]))
                 => preceding_blank_line_counter = 0

C3_Witness ==
  /\ pc = "done"
  /\ mode = "file"
  /\ \E n \in 1..Len(scripts[1].lines) :
       Reported(1, n, 6) /\ BlankRunEndingAt(scripts[1].lines, n - 1) = 3

\* C5: the diagnostics of one file are strictly increasing in (line, rule code).
C5_DiagnosticsOrdered ==
  \A a, b \in DOMAIN out :
    (a < b /\ out[a].file = out[b].file)
      => \/ out[a].line < out[b].line
         \/ out[a].line = out[b].line /\ out[a].code < out[b].code

C5_Witness ==
  /\ pc = "done"
  /\ mode = "file"
  /\ \E n \in 1..Len(scripts[1].lines) :
       /\ scripts[1].lines[n].k = "rich"
       /\ Len(Offending(get_parameters(stats, n))) > 1
       /\ Len(Offending(get_variables(stats, n))) > 1
       /\ Reported(1, n, 10) /\ Reported(1, n, 11) /\ Reported(1, n, 12)
       /\ \E m \in 1..Len(scripts[1].lines) : m # n /\ Reported(1, m, 2)

CanBeParsed(entry) ==
  entry.kind = "regular" /\ \A n \in DOMAIN entry.lines : Valid(entry.lines[n])

\* C8: a file whose tree cannot be built gets no diagnostic at all, and no line is
\* checked before the collector has visited the whole tree.
C8_ParsedThenChecked ==
  /\ \A k \in DOMAIN out : CanBeParsed(scripts[out[k].file])
  /\ pc = "lines" => todo = <<>>
  /\ (pc \in {"open", "parse", "visit", "raised"} \/ todo # <<>>) => DiagsOf(idx) = <<>>

C8_Witness ==
  /\ pc = "raised"
  /\ scripts[idx].kind = "regular"
  /\ Len(scripts[idx].lines) > 1
  /\ Valid(scripts[idx].lines[1])
  /\ LexicalBefore(Text(scripts[idx].lines[1])) # <<>>
  /\ DiagsOf(idx) = <<>>

\* What analyze_file prints for a file analysed on its own, as a function of the file.
RECURSIVE VisitAll(_, _)
VisitAll(st, nodes) ==
  IF nodes = <<>> THEN st ELSE VisitAll(visit(st, Head(nodes)), Tail(nodes))

RECURSIVE LinesFrom(_, _, _, _, _)
LinesFrom(file, lines, n, counter, st) ==
  IF n > Len(lines) THEN <<>>
  ELSE IF IsBlank(lines[n]) THEN LinesFrom(file, lines, n + 1, counter + 1, st)
  ELSE Stamp(LineDiagnostics(Text(lines[n]), n, counter, st), file, n)
         \o LinesFrom(file, lines, n + 1, 0, st)

Alone(file) ==
  LET lines == scripts[file].lines
  IN LinesFrom(file, lines, 1, 0, VisitAll(PepAnalyzer, Tree(lines, 1)))

RECURSIVE AloneFrom(_)
AloneFrom(file) ==
  IF file > Len(scripts) THEN <<>> ELSE Alone(file) \o AloneFrom(file + 1)

\* C9: a directory run that analyses every entry prints, in listing order, exactly
\* what each file prints when analysed alone (a single-file run prints Alone).
C9_DirectoryIsConcatenation ==
  /\ (pc = "done" /\ mode = "file") => out = Alone(1)
  /\ (pc = "done" /\ mode = "dir") => out = AloneFrom(1)

C9_Witness ==
  /\ pc = "done"
  /\ mode = "dir"
  /\ Len(scripts) > 1
  /\ Len(scripts[1].lines) > 1
  /\ scripts[1].lines[1].k = "rich"
  /\ IsBlank(scripts[1].lines[Len(scripts[1].lines)])
  /\ scripts[2].lines # <<>>
  /\ scripts[2].lines[1].k = "plain"
  /\ DiagsOf(1) # <<>>
  /\ DiagsOf(2) = <<>>

\* C4: in directory mode every entry that can be analysed is analysed and its
\* diagnostics are printed, whatever happens to the other entries.
C4_SiblingsStillAnalyzed ==
  (Terminated /\ mode = "dir")
    => \A k \in DOMAIN scripts : CanBeParsed(scripts[k]) => DiagsOf(k) = Alone(k)

====
